---- MODULE Spec2Model ----
(***************************************************************************)
(* EventNotify (src/src/server.ts): subscriber registry, event bus,        *)
(* notification fan-out, timer-based dispatch and SSE broadcast, together  *)
(* with the HTTP handlers that validate requests before calling the facade.*)
(*                                                                         *)
(* JavaScript strings are modelled as sequences of tokens; the token " "   *)
(* is a whitespace character, every other token is a run of non-blank      *)
(* characters.  A Map is a sequence of [k, v] entries in insertion order,  *)
(* a Set is a sequence of members in insertion order.  The clock readings  *)
(* (createdAt, sentAt) and latencyMs are kept apart from the notifications,*)
(* in stamps, and are drawn only by the runs of LatencySpec.               *)
(***************************************************************************)
EXTENDS Integers, Sequences, FiniteSets, TLC

\* ------------------------------------------------------------------ bounds
MaxRequests == 3        \* accepted subscribe, publish and connect requests in one run
MaxCalls == 4           \* subscribeUser, publishEvent and addSseClient calls in one run
MaxClock == 10          \* the largest reading of Date.now() in one run

\* Math.floor(Math.random() * JitterRange) is a value of 0 .. JitterRange-1;
\* the runs draw it from JitterSamples
JitterRange == 120
JitterSamples == {0, 2}

\* ------------------------------------------------------- JavaScript values
Undefined == [t |-> "undefined", s |-> <<>>]
Str(s) == [t |-> "string", s |-> s]
Num == [t |-> "number", s |-> <<"7">>]

\* !v is false exactly for truthy v: a non-empty string or a non-zero number
Truthy(v) == (v.t = "string" /\ Len(v.s) > 0) \/ v.t = "number"

\* Faulty variant: a maximum that returns its second argument
MathMax_Second(a, b) == b
\* Math.max of two numbers
MathMax(a, b) == IF a >= b THEN a ELSE b

IsWhite(ch) == ch = " "

RECURSIVE TrimStart(_)
TrimStart(s) ==
    IF s = <<>> THEN <<>>
    ELSE IF IsWhite(Head(s)) THEN TrimStart(Tail(s)) ELSE s

RECURSIVE TrimEnd(_)
TrimEnd(s) ==
    IF s = <<>> THEN <<>>
    ELSE IF IsWhite(s[Len(s)]) THEN TrimEnd(SubSeq(s, 1, Len(s) - 1)) ELSE s

\* String.prototype.trim
Trim(s) == TrimEnd(TrimStart(s))

\* ---------------------------------------------------------- Map and Set
MapKeys(m) == {m[i].k : i \in DOMAIN m}
MapHas(m, k) == k \in MapKeys(m)
MapValues(m) == [i \in DOMAIN m |-> m[i].v]
MapSize(m) == Len(m)
MapSet(m, k, v) ==
    IF MapHas(m, k)
    THEN [i \in DOMAIN m |-> IF m[i].k = k THEN [k |-> k, v |-> v] ELSE m[i]]
    ELSE Append(m, [k |-> k, v |-> v])
\* Faulty variant: a delete that removes the last entry when the key is absent
MapDelete_LastWhenAbsent(m, k) ==
    IF k \in {m[i].k : i \in DOMAIN m}
    THEN SelectSeq(m, LAMBDA e : e.k # k)
    ELSE SubSeq(m, 1, Len(m) - 1)
MapDelete(m, k) == SelectSeq(m, LAMBDA e : e.k # k)

SetMembers(s) == {s[i] : i \in DOMAIN s}
SetAdd(s, x) == IF x \in SetMembers(s) THEN s ELSE Append(s, x)
SetDelete(s, x) == SelectSeq(s, LAMBDA e : e # x)

\* ------------------------------------------------------------ domain
Channels == {<<"email">>, <<"sms">>, <<"push">>}
EventTypes == {<<"CREATED">>, <<"UPDATED">>, <<"CANCELLED">>}

\* Faulty variant: an id generator that repeats itself
CryptoRandomId_Repeating(n) == <<"uuid", "0">>
CryptoRandomId(n) == <<"uuid", ToString(n)>>

EmailStrategySend(userName, event) ==
    <<"[mail]", "Email", "a">> \o userName \o <<":", "Evento", "\"">> \o event.title
        \o <<"\"", "(">> \o event.type \o <<")">>
SmsStrategySend(userName, event) ==
    <<"[phone]", "SMS", "a">> \o userName \o <<":", "Evento", "\"">> \o event.title
        \o <<"\"", "(">> \o event.type \o <<")">>
PushStrategySend(userName, event) ==
    <<"[bell]", "Push", "a">> \o userName \o <<":", "Evento", "\"">> \o event.title
        \o <<"\"", "(">> \o event.type \o <<")">>

\* NotificationFactory.create: the strategy for a channel, or a throw
FactoryThrows(channel) == channel \notin Channels
\* Faulty variant: a factory that returns the email strategy for every channel
StrategySend_AlwaysEmail(channel, userName, event) == EmailStrategySend(userName, event)
StrategySend(channel, userName, event) ==
    CASE channel = <<"email">> -> EmailStrategySend(userName, event)
      [] channel = <<"sms">> -> SmsStrategySend(userName, event)
      [] channel = <<"push">> -> PushStrategySend(userName, event)

\* UserSubscriber.update; n is the next unused uuid
UserSubscriberUpdate(subscriber, event, n) ==
    [ id |-> CryptoRandomId(n),
      userId |-> subscriber.id,
      userName |-> subscriber.name,
      channel |-> subscriber.channel,
      eventId |-> event.id,
      eventTitle |-> event.title,
      eventType |-> event.type,
      rendered |-> StrategySend(subscriber.channel, subscriber.name, event) ]

\* ------------------------------------------------------------ EventBus
BusSubscribe(obs, id, subscriber) == MapSet(obs, id, subscriber)
\* Faulty variant: unsubscribe that leaves the listener in the bus
BusUnsubscribe_Keep(obs, id) == obs
BusUnsubscribe(obs, id) == MapDelete(obs, id)
BusCount(obs) == MapSize(obs)

\* Faulty variant: a loop by index that skips the listener after each one
\* it serves, as when the listeners before it are removed while it runs
RECURSIVE NotifyLoop_SkipNext(_, _, _, _, _)
NotifyLoop_SkipNext(obs, i, event, out, n) ==
    IF i > Len(obs) THEN [threw |-> FALSE, out |-> out, next |-> n]
    ELSE IF FactoryThrows(obs[i].v.channel)
         THEN [threw |-> TRUE, out |-> <<>>, next |-> n]
         ELSE NotifyLoop_SkipNext(obs, i + 2, event,
                                  Append(out, UserSubscriberUpdate(obs[i].v, event, n)),
                                  n + 1)

\* EventBus.notifyAll: the loop over observers.values(); an exception thrown
\* by update leaves the loop and the method
RECURSIVE NotifyLoop(_, _, _, _, _)
NotifyLoop(obs, i, event, out, n) ==
    IF i > Len(obs) THEN [threw |-> FALSE, out |-> out, next |-> n]
    ELSE IF FactoryThrows(obs[i].v.channel)
         THEN [threw |-> TRUE, out |-> <<>>, next |-> n]
         ELSE NotifyLoop(obs, i + 1, event,
                         Append(out, UserSubscriberUpdate(obs[i].v, event, n)), n + 1)

\* Faulty variant: fan-out that stops before the last listener
NotifyAll_DropLast(obs, event, n) ==
    NotifyLoop(SubSeq(obs, 1, Len(obs) - 1), 1, event, <<>>, n)
NotifyAll(obs, event, n) == NotifyLoop(obs, 1, event, <<>>, n)

\* ------------------------------------------------------------ timers
\* The runtime's timer queue: pending timers in firing order, each with the
\* time it still has to wait.  setTimeout(f, d) waits max(1, d).
TimerDelay(jitter) == IF jitter < 1 THEN 1 ELSE jitter

\* Faulty variant: a timer queue that fires in the order of the setTimeout
\* calls, whatever the delays
SetTimeout_Fifo(tq, msg, jitter) ==
    Append(tq, [remaining |-> TimerDelay(jitter), msg |-> msg])
SetTimeout(tq, msg, jitter) ==
    LET d == TimerDelay(jitter)
        before == SelectSeq(tq, LAMBDA t : t.remaining <= d)
        after == SelectSeq(tq, LAMBDA t : t.remaining > d)
    IN before \o <<[remaining |-> d, msg |-> msg]>> \o after

\* AsyncDispatcher.dispatch: js[i] is the jitter drawn for messages[i]
RECURSIVE DispatchLoop(_, _, _, _)
DispatchLoop(tq, messages, js, i) ==
    IF i > Len(messages) THEN tq
    ELSE DispatchLoop(SetTimeout(tq, messages[i], js[i]), messages, js, i + 1)

Dispatch(tq, messages, js) == DispatchLoop(tq, messages, js, 1)

\* ------------------------------------------------------------ SSE
HelloFrame == [event |-> "hello", data |-> <<>>]
NotificationFrame(msg) == [event |-> "notification", data |-> msg]

\* EventNotifyFacade.broadcast: one frame to every member of sseClients
RECURSIVE BroadcastLoop(_, _, _, _)
BroadcastLoop(w, clients, msg, i) ==
    IF i > Len(clients) THEN w
    ELSE BroadcastLoop([w EXCEPT ![clients[i]] = Append(@, NotificationFrame(msg))],
                       clients, msg, i + 1)

\* Faulty variant: broadcast to every connection ever opened
Broadcast_AllConns(w, clients, msg) ==
    [c \in DOMAIN w |-> Append(w[c], NotificationFrame(msg))]
\* Faulty variant: broadcast whose loop starts one member too late
Broadcast_SkipFirst(w, clients, msg) == BroadcastLoop(w, clients, msg, 2)
Broadcast(w, clients, msg) == BroadcastLoop(w, clients, msg, 1)

\* ------------------------------------------------------------ state
Outcome(op, status) == [op |-> op, status |-> status]

VARIABLES
    subscribers,    \* EventNotifyFacade.subscribers : Map id -> Subscriber
    observers,      \* EventBus.observers : Map id -> UserSubscriber(subscriber)
    sseClients,     \* EventNotifyFacade.sseClients : Set of connections
    timers,         \* pending setTimeout callbacks
    nextUuid,       \* number of uuids drawn so far, plus one
    nextConn,       \* number of GET /events connections so far, plus one
    wire,           \* wire[c] : the frames written to connection c
    outcome,        \* the last request served and the status of its response
    messages,       \* the batch built by the last publishEvent
    delivered,      \* ids of the notifications whose deliver callback has run
    issued,         \* ids returned by subscribeUser so far
    removedIds,     \* ids returned by subscribeUser and unsubscribed since
    numSubscribed,  \* subscribeUser calls so far
    numPublished,   \* events created so far
    removedPending, \* <<c, n>>: connection c was removed while the timer of
                    \* notification n was pending
    stamps          \* createdAt of the last event and sentAt, latencyMs of the
                    \* notification last built for it

vars == <<subscribers, observers, sseClients, timers, nextUuid, nextConn, wire,
          outcome, messages, delivered, issued, removedIds, numSubscribed,
          numPublished, removedPending, stamps>>

registryVars == <<subscribers, observers, issued, removedIds, numSubscribed>>
deliveryVars == <<timers, wire, delivered, messages, numPublished>>
clientVars == <<sseClients, nextConn, removedPending>>

Init ==
    /\ subscribers = <<>>
    /\ observers = <<>>
    /\ sseClients = <<>>
    /\ timers = <<>>
    /\ nextUuid = 1
    /\ nextConn = 1
    /\ wire = <<>>
    /\ outcome = Outcome("none", "none")
    /\ messages = <<>>
    /\ delivered = <<>>
    /\ issued = {}
    /\ removedIds = {}
    /\ numSubscribed = 0
    /\ numPublished = 0
    /\ removedPending = {}
    /\ stamps = <<>>

\* ------------------------------------------------------------ facade
\* EventNotifyFacade.subscribeUser
SubscribeUser(name, channel) ==
    LET sub == [id |-> CryptoRandomId(nextUuid), name |-> name, channel |-> channel]
    IN /\ subscribers' = MapSet(subscribers, sub.id, sub)
       /\ observers' = BusSubscribe(observers, sub.id, sub)
       /\ nextUuid' = nextUuid + 1
       /\ issued' = issued \cup {sub.id}
       /\ numSubscribed' = numSubscribed + 1
       /\ UNCHANGED removedIds

\* EventNotifyFacade.unsubscribeUser
UnsubscribeUser(id) ==
    /\ subscribers' = MapDelete(subscribers, id)
    /\ observers' = BusUnsubscribe(observers, id)
    /\ removedIds' = removedIds \cup ({id} \cap issued)
    /\ UNCHANGED <<issued, numSubscribed, nextUuid>>

\* Faulty variant: a list in the reverse of the registration order
ListSubscribers_Reversed ==
    [i \in DOMAIN subscribers |-> subscribers[Len(subscribers) + 1 - i].v]
\* EventNotifyFacade.listSubscribers
ListSubscribers == MapValues(subscribers)

\* EventNotifyFacade.subscriberCount
SubscriberCount == BusCount(observers)

\* The event publishEvent creates
NewEvent(title, type) == [id |-> CryptoRandomId(nextUuid), title |-> title, type |-> type]

\* Whether publishEvent(title, type) ends by an exception
PublishThrows(title, type) == NotifyAll(observers, NewEvent(title, type), nextUuid + 1).threw

\* Faulty variant: publishEvent whose dispatcher runs deliver at once for a jitter of 0
PublishEvent_SyncWhenZero(title, type, js) ==
    LET event == NewEvent(title, type)
        r == NotifyAll(observers, event, nextUuid + 1)
        now == SelectSeq([i \in DOMAIN r.out |-> [j |-> js[i], m |-> r.out[i]]],
                         LAMBDA e : e.j = 0)
        later == SelectSeq([i \in DOMAIN r.out |-> [j |-> js[i], m |-> r.out[i]]],
                           LAMBDA e : e.j # 0)
    IN /\ nextUuid' = r.next
       /\ numPublished' = numPublished + 1
       /\ messages' = r.out
       /\ timers' = Dispatch(timers, [i \in DOMAIN later |-> later[i].m],
                             [i \in DOMAIN later |-> later[i].j])
       /\ delivered' = delivered \o [i \in DOMAIN now |-> now[i].m.id]
       /\ wire' = IF now = <<>> THEN wire ELSE Broadcast(wire, sseClients, now[1].m)

\* EventNotifyFacade.publishEvent; js are the jitters Math.random yields
PublishEvent(title, type, js) ==
    LET event == NewEvent(title, type)
        r == NotifyAll(observers, event, nextUuid + 1)
    IN /\ nextUuid' = r.next
       /\ UNCHANGED <<wire, delivered>>
       /\ numPublished' = numPublished + 1
       /\ IF r.threw
          THEN UNCHANGED <<timers, messages>>
          ELSE /\ messages' = r.out
               /\ timers' = Dispatch(timers, r.out, js)

\* EventNotifyFacade.addSseClient
AddSseClient(c) ==
    /\ sseClients' = SetAdd(sseClients, c)
    /\ UNCHANGED removedPending

\* EventNotifyFacade.removeSseClient
RemoveSseClient(c) ==
    /\ sseClients' = SetDelete(sseClients, c)
    /\ removedPending' = removedPending \cup
         (IF c \in SetMembers(sseClients)
          THEN {<<c, timers[i].msg.id>> : i \in DOMAIN timers}
          ELSE {})

Jitters == JitterSamples \cap (0 .. (JitterRange - 1))
\* Requests accepted so far
Accepted == numSubscribed + numPublished + (nextConn - 1)
Conns == 1 .. (nextConn - 1)

\* ------------------------------------------------------------ HTTP handlers
\* The request bodies the runs draw from
SubscribeBodies ==
    { [name |-> Str(<<" ", "Ana", " ">>), channel |-> Str(<<"email">>)],
      [name |-> Str(<<" ">>), channel |-> Str(<<"push">>)],
      [name |-> Undefined, channel |-> Str(<<"email">>)],
      [name |-> Str(<<>>), channel |-> Str(<<"sms">>)],
      [name |-> Num, channel |-> Str(<<"push">>)],
      [name |-> Str(<<"Bo">>), channel |-> Undefined],
      [name |-> Str(<<"Bo">>), channel |-> Str(<<"fax">>)] }
PublishBodies ==
    { [title |-> Str(<<"X", " ">>), type |-> Str(<<"UPDATED">>)],
      [title |-> Str(<<" ">>), type |-> Str(<<"CANCELLED">>)],
      [title |-> Undefined, type |-> Str(<<"CREATED">>)],
      [title |-> Str(<<>>), type |-> Str(<<"CREATED">>)],
      [title |-> Num, type |-> Str(<<"UPDATED">>)],
      [title |-> Str(<<"Y">>), type |-> Undefined],
      [title |-> Str(<<"Y">>), type |-> Str(<<"DELETED">>)] }
UnsubscribeIds == {Undefined, Str(<<>>), Str(<<"nope">>)} \cup {Str(i) : i \in issued}

\* !name || typeof name !== "string"
NameRejected(name) == ~Truthy(name) \/ name.t # "string"
\* Faulty variant: a check that only asks for some channel
ChannelRejected_AnyTruthy(channel) == ~Truthy(channel)
\* !channel || !["email", "sms", "push"].includes(channel)
ChannelRejected(channel) == ~Truthy(channel) \/ ~(channel.t = "string" /\ channel.s \in Channels)
\* !id
IdRejected(id) == ~Truthy(id)
\* !title || typeof title !== "string"
TitleRejected(title) == ~Truthy(title) \/ title.t # "string"
\* !type || !["CREATED", "UPDATED", "CANCELLED"].includes(type)
TypeRejected(type) == ~Truthy(type) \/ ~(type.t = "string" /\ type.s \in EventTypes)


\* POST /api/subscribe
PostSubscribe(name, channel) ==
    /\ IF NameRejected(name)
       THEN /\ outcome' = Outcome("subscribe", "400")
            /\ UNCHANGED <<registryVars, nextUuid>>
       ELSE IF ChannelRejected(channel)
       THEN /\ outcome' = Outcome("subscribe", "400")
            /\ UNCHANGED <<registryVars, nextUuid>>
       ELSE /\ Accepted < MaxRequests
            /\ SubscribeUser(Trim(name.s), channel.s)
            /\ outcome' = Outcome("subscribe", "200")
    /\ UNCHANGED <<deliveryVars, clientVars, stamps>>

\* Faulty variant: an unsubscribe that also withdraws the pending
\* notifications built for the subscriber
PostUnsubscribe_Withdraws(id) ==
    /\ IF IdRejected(id)
       THEN /\ outcome' = Outcome("unsubscribe", "400")
            /\ UNCHANGED <<registryVars, nextUuid, timers>>
       ELSE /\ UnsubscribeUser(id.s)
            /\ timers' = SelectSeq(timers, LAMBDA t : t.msg.userId # id.s)
            /\ outcome' = Outcome("unsubscribe", "200")
    /\ UNCHANGED <<wire, delivered, messages, numPublished, clientVars, stamps>>

\* POST /api/unsubscribe
PostUnsubscribe(id) ==
    /\ IF IdRejected(id)
       THEN /\ outcome' = Outcome("unsubscribe", "400")
            /\ UNCHANGED <<registryVars, nextUuid>>
       ELSE /\ UnsubscribeUser(id.s)
            /\ outcome' = Outcome("unsubscribe", "200")
    /\ UNCHANGED <<deliveryVars, clientVars, stamps>>

\* GET /api/subscribers
GetSubscribers ==
    /\ outcome' = Outcome("subscribers", "200")
    /\ UNCHANGED <<registryVars, nextUuid, deliveryVars, clientVars, stamps>>

\* POST /api/publish; an exception of publishEvent reaches the framework's
\* error handler, which answers 500
PostPublish(title, type) ==
    /\ IF TitleRejected(title)
       THEN /\ outcome' = Outcome("publish", "400")
            /\ UNCHANGED <<nextUuid, deliveryVars>>
       ELSE IF TypeRejected(type)
       THEN /\ outcome' = Outcome("publish", "400")
            /\ UNCHANGED <<nextUuid, deliveryVars>>
       ELSE /\ Accepted < MaxRequests
            /\ \E js \in [1 .. BusCount(observers) -> Jitters] :
                 PublishEvent(Trim(title.s), type.s, js)
            /\ outcome' = Outcome("publish",
                             IF PublishThrows(Trim(title.s), type.s) THEN "500" ELSE "200")
    /\ UNCHANGED <<registryVars, clientVars, stamps>>

\* Faulty variant: a connect that registers the client and writes no hello
GetEvents_NoHello ==
    /\ Accepted < MaxRequests
    /\ wire' = Append(wire, <<>>)
    /\ AddSseClient(nextConn)
    /\ nextConn' = nextConn + 1
    /\ outcome' = Outcome("events", "200")
    /\ UNCHANGED <<registryVars, nextUuid, timers, delivered, messages, numPublished,
                   stamps>>

\* GET /events: the hello frame, then the connection joins sseClients
GetEvents ==
    /\ Accepted < MaxRequests
    /\ wire' = Append(wire, <<HelloFrame>>)
    /\ AddSseClient(nextConn)
    /\ nextConn' = nextConn + 1
    /\ outcome' = Outcome("events", "200")
    /\ UNCHANGED <<registryVars, nextUuid, timers, delivered, messages, numPublished,
                   stamps>>

\* Faulty variant: a disconnect that clears the pending timers
CloseConn_CancelsTimers(c) ==
    /\ c \in SetMembers(sseClients)
    /\ RemoveSseClient(c)
    /\ timers' = <<>>
    /\ UNCHANGED <<registryVars, nextUuid, wire, delivered, messages, numPublished,
                   nextConn, outcome, stamps>>

\* req.on("close") of connection c
CloseConn(c) ==
    /\ c \in SetMembers(sseClients)
    /\ RemoveSseClient(c)
    /\ UNCHANGED <<registryVars, nextUuid, deliveryVars, nextConn, outcome, stamps>>

\* Faulty variant: a deliver that forgets its clients once it has written
TimerFire_DropsClients ==
    /\ timers # <<>>
    /\ Head(timers).remaining = 0
    /\ wire' = Broadcast(wire, sseClients, Head(timers).msg)
    /\ delivered' = Append(delivered, Head(timers).msg.id)
    /\ timers' = Tail(timers)
    /\ sseClients' = <<>>
    /\ UNCHANGED <<registryVars, nextUuid, messages, numPublished, nextConn,
                   removedPending, outcome, stamps>>

\* A due timer fires: deliver(m) = broadcast(m)
TimerFire ==
    /\ timers # <<>>
    /\ Head(timers).remaining = 0
    /\ wire' = Broadcast(wire, sseClients, Head(timers).msg)
    /\ delivered' = Append(delivered, Head(timers).msg.id)
    /\ timers' = Tail(timers)
    /\ UNCHANGED <<registryVars, nextUuid, messages, numPublished, clientVars, outcome,
                   stamps>>

\* Time passes by one unit
Tick ==
    /\ \E i \in DOMAIN timers : timers[i].remaining > 0
    /\ timers' = [i \in DOMAIN timers |->
                    IF timers[i].remaining > 0
                    THEN [timers[i] EXCEPT !.remaining = @ - 1]
                    ELSE timers[i]]
    /\ UNCHANGED <<registryVars, nextUuid, wire, delivered, messages, numPublished,
                   clientVars, outcome, stamps>>

Next ==
    \/ \E b \in SubscribeBodies : PostSubscribe(b.name, b.channel)
    \/ \E id \in UnsubscribeIds : PostUnsubscribe(id)
    \/ GetSubscribers
    \/ \E b \in PublishBodies : PostPublish(b.title, b.type)
    \/ GetEvents
    \/ \E c \in Conns : CloseConn(c)
    \/ TimerFire
    \/ Tick

Spec == Init /\ [][Next]_vars

TypeOK ==
    /\ MapKeys(subscribers) \subseteq issued
    /\ Accepted \in 0 .. MathMax(MaxRequests, MaxCalls)
    /\ DOMAIN wire = Conns
    /\ SetMembers(sseClients) \subseteq Conns

\* ------------------------------------------------------------ facade calls
\* The facade called directly, without the handlers' validation.  The
\* arguments are JavaScript strings: the declared types are not checked when
\* the program runs.
SubscribeArgs ==
    { [name |-> <<"Ana">>, channel |-> <<"sms">>],
      [name |-> <<"Bo">>, channel |-> <<"fax">>],
      [name |-> <<"Cy">>, channel |-> <<"push">>] }
PublishArgs == { [title |-> <<"X">>, type |-> <<"CREATED">>] }

CallSubscribeUser(name, channel) ==
    /\ Accepted < MaxCalls
    /\ SubscribeUser(name, channel)
    /\ outcome' = Outcome("subscribeUser", "returned")
    /\ UNCHANGED <<deliveryVars, clientVars, stamps>>

CallUnsubscribeUser(id) ==
    /\ UnsubscribeUser(id)
    /\ outcome' = Outcome("unsubscribeUser", "returned")
    /\ UNCHANGED <<deliveryVars, clientVars, stamps>>

CallPublishEvent(title, type) ==
    /\ Accepted < MaxCalls
    /\ \E js \in [1 .. BusCount(observers) -> Jitters] : PublishEvent(title, type, js)
    /\ outcome' = Outcome("publishEvent",
                     IF PublishThrows(title, type) THEN "threw" ELSE "returned")
    /\ UNCHANGED <<registryVars, clientVars, stamps>>

CallAddSseClient ==
    /\ Accepted < MaxCalls
    /\ wire' = Append(wire, <<>>)
    /\ AddSseClient(nextConn)
    /\ nextConn' = nextConn + 1
    /\ outcome' = Outcome("addSseClient", "returned")
    /\ UNCHANGED <<registryVars, nextUuid, timers, delivered, messages, numPublished,
                   stamps>>

CallRemoveSseClient(c) ==
    /\ RemoveSseClient(c)
    /\ outcome' = Outcome("removeSseClient", "returned")
    /\ UNCHANGED <<registryVars, nextUuid, deliveryVars, nextConn, stamps>>

FacadeNext ==
    \/ \E a \in SubscribeArgs : CallSubscribeUser(a.name, a.channel)
    \/ \E id \in issued : CallUnsubscribeUser(id)
    \/ \E a \in PublishArgs : CallPublishEvent(a.title, a.type)
    \/ CallAddSseClient
    \/ \E c \in Conns : CallRemoveSseClient(c)
    \/ TimerFire
    \/ Tick

FacadeSpec == Init /\ [][FacadeNext]_vars

\* ------------------------------------------------------------ clock
\* The readings Date.now() can return.  The system clock can be set back
\* between two readings, so a later reading can be the smaller one.
ClockReadings == 0 .. MaxClock

\* sentAt and latencyMs of the notification update builds for event when
\* Date.now() returns sentAt
UpdateStamps(event, sentAt) ==
    [ createdAt |-> event.createdAt,
      sentAt |-> sentAt,
      latencyMs |-> MathMax(0, sentAt - event.createdAt) ]

\* publishEvent with one listener, seen through its clock readings: the
\* event is created when Date.now() returns createdAt, update reads sentAt
PublishStamped(createdAt, sentAt) ==
    /\ stamps' = <<UpdateStamps([createdAt |-> createdAt], sentAt)>>
    /\ UNCHANGED <<registryVars, nextUuid, deliveryVars, clientVars, outcome>>

LatencyNext == \E createdAt, sentAt \in ClockReadings : PublishStamped(createdAt, sentAt)

LatencySpec == Init /\ [][LatencyNext]_vars

\* ------------------------------------------------------------ fair timers
\* The runtime runs a due timer callback once the running handler returns,
\* and time does not stop.
FairSpec == Spec /\ WF_vars(TimerFire) /\ WF_vars(Tick)

\* ------------------------------------------------------------ claims
HasNotification(w, n) ==
    \E i \in DOMAIN w : w[i].event = "notification" /\ w[i].data.id = n
CountNotification(w, n) ==
    Cardinality({i \in DOMAIN w : w[i].event = "notification" /\ w[i].data.id = n})
SeqToSet(s) == {s[i] : i \in DOMAIN s}

\* C1: in every reachable state the ids of the subscriber registry are the
\* ids that have an observer in the event bus; each id has exactly one entry
\* in either map and the observer of an id is bound to the subscriber of
\* that id.
C1_RegistryMatchesBus ==
    /\ MapKeys(subscribers) = MapKeys(observers)
    /\ Len(subscribers) = Cardinality(MapKeys(subscribers))
    /\ Len(observers) = Cardinality(MapKeys(observers))
    /\ \A i \in DOMAIN observers : \E j \in DOMAIN subscribers :
         /\ subscribers[j].k = observers[i].k
         /\ subscribers[j].v = observers[i].v
         /\ subscribers[j].v.id = observers[i].k

\* One subscriber is left after a subscribe, an unsubscribe and a publish.
C1_Witness ==
    /\ Len(subscribers) = 1
    /\ removedIds # {}
    /\ numPublished > 0

\* No frame of notification n is on connection c when c was removed while
\* the timer of n was pending.
C2_NotAfterRemoval ==
    \A p \in removedPending : ~HasNotification(wire[p[1]], p[2])

\* A step writes only to connections that are in sseClients.
C2_WritesOnlyToMembers ==
    \A c \in DOMAIN wire : wire'[c] # wire[c] => c \in SetMembers(sseClients)

\* C2: a connection removed while a notification's timer is pending never
\* receives that notification, and no step writes a frame to a connection
\* that is not in sseClients.
C2_RemovedClientGetsNothing ==
    [](C2_NotAfterRemoval) /\ [][C2_WritesOnlyToMembers]_vars

\* A notification was delivered after a connection had been removed while
\* its timer was pending, and that connection holds no frame of it.
C2_Witness ==
    \E p \in removedPending :
        /\ p[2] \in SeqToSet(delivered)
        /\ ~HasNotification(wire[p[1]], p[2])

\* The step that runs deliver(m): m is the head of the timer queue.
C3_DeliverStep ==
    delivered' # delivered =>
        /\ timers # <<>>
        /\ delivered' = Append(delivered, Head(timers).msg.id)
        /\ timers' = Tail(timers)
        /\ sseClients' = sseClients
        /\ DOMAIN wire' = DOMAIN wire
        /\ \A c \in DOMAIN wire :
             wire'[c] = IF c \in SetMembers(sseClients)
                        THEN Append(wire[c], NotificationFrame(Head(timers).msg))
                        ELSE wire[c]

\* Every notification built so far is either a pending timer or delivered,
\* none is delivered twice, a delivered one has no timer left, and a
\* connection holds at most one frame of a notification.
C3_AtMostOnce ==
    /\ Len(timers) + Len(delivered) = (nextUuid - 1) - numSubscribed - numPublished
    /\ Len(delivered) = Cardinality(SeqToSet(delivered))
    /\ \A i \in DOMAIN timers : timers[i].msg.id \notin SeqToSet(delivered)
    /\ \A c \in DOMAIN wire : \A i \in DOMAIN wire[c] :
         wire[c][i].event = "notification" =>
            /\ wire[c][i].data.id \in SeqToSet(delivered)
            /\ CountNotification(wire[c], wire[c][i].data.id) = 1

C4_PublishStep ==
    numPublished' # numPublished =>
        /\ wire' = wire
        /\ delivered' = delivered
        /\ \A i \in DOMAIN messages' :
             \E k \in DOMAIN timers' :
                 timers'[k].msg = messages'[i] /\ timers'[k].remaining > 0

\* C4: the step in which publishEvent builds and schedules a batch delivers
\* nothing: it writes to no connection and runs no deliver callback, and
\* every notification of the batch is a pending timer when it returns,
\* whatever jitter was drawn, 0 included.
C4_ReturnsBeforeDelivery == [][C4_PublishStep]_vars

\* A publish has been answered while a client is connected and the
\* notification it built is still a pending timer, written to nobody.
C4_Witness ==
    /\ outcome = Outcome("publish", "200")
    /\ sseClients # <<>>
    /\ Len(messages) = 1
    /\ \E k \in DOMAIN timers : timers[k].msg = messages[1]
    /\ \A c \in DOMAIN wire : ~HasNotification(wire[c], messages[1].id)

\* The batch built by the step in which publishEvent runs.
C5_PublishStep ==
    numPublished' # numPublished =>
        /\ Len(messages') = Len(subscribers)
        /\ \A i \in DOMAIN messages' :
             /\ messages'[i].userId = subscribers[i].v.id
             /\ messages'[i].eventId = CryptoRandomId(nextUuid)
        /\ \A i, j \in DOMAIN messages' :
             messages'[i].id = messages'[j].id => i = j

\* C5: a publish with K registered subscribers builds a batch of exactly K
\* notifications, the i-th of them for the i-th subscriber in registration
\* order, all for the event just created.
C5_OnePerSubscriberInOrder == [][C5_PublishStep]_vars

\* A publish with two registered subscribers built two notifications.
C5_Witness ==
    /\ outcome = Outcome("publish", "200")
    /\ Len(subscribers) = 2
    /\ Len(messages) = 2
    /\ messages[1].userId = subscribers[1].v.id
    /\ messages[2].userId = subscribers[2].v.id

\* C6: a listener whose build step fails does not make publishEvent fail:
\* the call returns and the batch holds the notifications of exactly the
\* subscribers whose build step succeeds.
C6_ListenerFailureIsolated ==
    outcome.op = "publishEvent" =>
        /\ outcome.status = "returned"
        /\ {messages[i].userId : i \in DOMAIN messages} =
             {subscribers[i].k : i \in {j \in DOMAIN subscribers :
                                          subscribers[j].v.channel \in Channels}}

\* C7: subscriberCount() is the number of subscribe calls minus the number
\* of distinct returned ids that were unsubscribed, and every subscribe
\* returned an id no earlier subscribe returned.
C7_CountIsSubscribesMinusUnsubscribes ==
    /\ SubscriberCount = numSubscribed - Cardinality(removedIds)
    /\ Cardinality(issued) = numSubscribed
    /\ removedIds \subseteq issued

\* Three subscribes and one unsubscribe; the two subscribers left have the
\* same name and channel.
C7_Witness ==
    /\ numSubscribed = 3
    /\ Cardinality(removedIds) = 1
    /\ SubscriberCount = 2
    /\ subscribers[1].v.name = subscribers[2].v.name
    /\ subscribers[1].v.channel = subscribers[2].v.channel

\* The step that serves an unsubscribe of a non-empty id the registry does
\* not hold.
C8_UnsubscribeAbsentStep ==
    \A id \in UnsubscribeIds :
        ( /\ id.t = "string"
          /\ id.s # <<>>
          /\ id.s \notin MapKeys(subscribers)
          /\ PostUnsubscribe(id) )
        => /\ subscribers' = subscribers
           /\ observers' = observers
           /\ outcome' = Outcome("unsubscribe", "200")

\* C8: an unsubscribe of an id that is not in the registry (never issued, or
\* unsubscribed before) is answered 200 and leaves the registry and the bus,
\* hence subscriberCount(), as they are.
C8_UnsubscribeAbsentIsNoOp == [][C8_UnsubscribeAbsentStep]_vars

\* An unsubscribe was answered 200 although no returned id was ever
\* unsubscribed: its id was absent, and both subscribers are still there.
C8_Witness ==
    /\ outcome = Outcome("unsubscribe", "200")
    /\ removedIds = {}
    /\ numSubscribed = 2
    /\ Len(subscribers) = 2
    /\ BusCount(observers) = 2

\* What the interface rejects, stated on the request bodies.
C9_BadName(v) == v.t # "string" \/ v.s = <<>>
C9_BadChannel(v) == v \notin {Str(<<"email">>), Str(<<"sms">>), Str(<<"push">>)}
C9_BadType(v) == v \notin {Str(<<"CREATED">>), Str(<<"UPDATED">>), Str(<<"CANCELLED">>)}

C9_Unchanged == UNCHANGED <<registryVars, nextUuid, deliveryVars, clientVars>>

\* A step either changes nothing and answers 400, or is not the service of
\* a request the interface rejects.
C9_RejectedStep ==
    \/ C9_Unchanged /\ outcome'.status = "400"
    \/ /\ \A b \in SubscribeBodies :
            (C9_BadName(b.name) \/ C9_BadChannel(b.channel))
            => ~PostSubscribe(b.name, b.channel)
       /\ \A id \in UnsubscribeIds :
            C9_BadName(id) => ~PostUnsubscribe(id)
       /\ \A b \in PublishBodies :
            (C9_BadName(b.title) \/ C9_BadType(b.type))
            => ~PostPublish(b.title, b.type)

\* C9: a request that boundary validation must reject is answered 400 and
\* changes nothing: a subscribe without a non-empty string name or with a
\* channel outside email, sms, push; an unsubscribe without an id; a publish
\* without a non-empty string title or with a type outside CREATED, UPDATED,
\* CANCELLED.
C9_RejectionChangesNothing == [][C9_RejectedStep]_vars

\* A subscribe was rejected while a subscriber is registered and a timer is
\* pending.
C9_Witness ==
    /\ outcome = Outcome("subscribe", "400")
    /\ subscribers # <<>>
    /\ timers # <<>>

\* C10: every subscriber in the registry has a non-empty name.
C10_NamesNonEmpty ==
    \A i \in DOMAIN subscribers : subscribers[i].v.name # <<>>

\* C11: every event published has a non-empty title and a type among
\* CREATED, UPDATED and CANCELLED, so every notification built for it
\* carries a non-empty eventTitle and such an eventType, whatever title the
\* publish handler accepted.
C11_TitlesNonEmpty ==
    \A i \in DOMAIN messages :
        /\ messages[i].eventTitle # <<>>
        /\ messages[i].eventType \in EventTypes

\* C12: every connection starts with the hello frame, written in the step
\* that connects it, and every later frame on it is a notification: no
\* notification precedes the hello and no second hello follows.
C12_HelloFirstAndOnce ==
    \A c \in DOMAIN wire :
        /\ Len(wire[c]) >= 1
        /\ wire[c][1] = HelloFrame
        /\ \A i \in 2 .. Len(wire[c]) : wire[c][i].event = "notification"

\* A connection holds its hello and, after it, a notification.
C12_Witness ==
    \E c \in DOMAIN wire :
        /\ Len(wire[c]) >= 2
        /\ wire[c][1] = HelloFrame
        /\ wire[c][2].event = "notification"

\* C13: the latency of a notification is max(0, sentAt - createdAt): it is
\* the difference of the two readings when sentAt is not the earlier one,
\* and 0 when the clock read earlier at render time than at creation.
C13_LatencyClamped ==
    \A i \in DOMAIN stamps :
        /\ stamps[i].latencyMs >= 0
        /\ stamps[i].sentAt >= stamps[i].createdAt
           => stamps[i].latencyMs = stamps[i].sentAt - stamps[i].createdAt
        /\ stamps[i].sentAt < stamps[i].createdAt => stamps[i].latencyMs = 0

\* A notification was built when the clock read earlier than createdAt.
C13_Witness ==
    \E i \in DOMAIN stamps :
        /\ stamps[i].sentAt < stamps[i].createdAt
        /\ stamps[i].latencyMs = 0

\* s holds sub as a run of consecutive tokens.
C14_Contains(s, sub) ==
    \E i \in 0 .. (Len(s) - Len(sub)) : SubSeq(s, i + 1, i + Len(sub)) = sub

\* The icon and label that open the text of a channel's renderer.
C14_Label(channel) ==
    CASE channel = <<"email">> -> <<"[mail]", "Email">>
      [] channel = <<"sms">> -> <<"[phone]", "SMS">>
      [] channel = <<"push">> -> <<"[bell]", "Push">>

\* What a notification for subscriber sub and event ev must carry.
C14_Carries(m, sub, ev) ==
    /\ m.userId = sub.id
    /\ m.userName = sub.name
    /\ m.channel = sub.channel
    /\ m.eventId = ev.id
    /\ m.eventTitle = ev.title
    /\ m.eventType = ev.type
    /\ SubSeq(m.rendered, 1, 2) = C14_Label(sub.channel)
    /\ C14_Contains(m.rendered, sub.name)
    /\ C14_Contains(m.rendered, ev.title)
    /\ C14_Contains(m.rendered, ev.type)

\* The three renderers, applied to sample subscribers and events.
C14_EveryChannel ==
    \A ch \in Channels : \A name \in {<<"Ana">>, <<"Bo", " ", "Li">>} :
        \A title \in {<<"X">>, <<"Y", " ", "Z">>} : \A type \in EventTypes :
            LET sub == [id |-> CryptoRandomId(1), name |-> name, channel |-> ch]
                ev == [id |-> CryptoRandomId(2), title |-> title, type |-> type]
            IN C14_Carries(UserSubscriberUpdate(sub, ev, 3), sub, ev)

\* The step in which the publish handler runs: the batch it builds.
C14_PublishStep ==
    numPublished' # numPublished =>
        \E b \in PublishBodies :
            LET ev == [id |-> CryptoRandomId(nextUuid), title |-> Trim(b.title.s),
                       type |-> b.type.s]
            IN /\ ~TitleRejected(b.title)
               /\ ~TypeRejected(b.type)
               /\ Len(messages') = Len(subscribers)
               /\ \A i \in DOMAIN messages' :
                    C14_Carries(messages'[i], subscribers[i].v, ev)

\* C14: every notification a publish builds has the id, name and channel of
\* the subscriber it is for, as registered, and the id, title and type of the
\* event just created; its text opens with the icon and label of the
\* subscriber's channel and holds the subscriber's name, the event's title
\* and the event's type.  The same holds of each of the three renderers.
C14_CarriesSubscriberAndEvent == [](C14_EveryChannel) /\ [][C14_PublishStep]_vars

\* A publish built notifications for an email and a push subscriber whose
\* registered name was trimmed.
C14_Witness ==
    /\ outcome = Outcome("publish", "200")
    /\ Len(messages) = 2
    /\ messages[1].channel = <<"email">>
    /\ messages[1].userName = <<"Ana">>
    /\ messages[2].channel = <<"push">>
    /\ messages[1].eventTitle = <<"X">>

\* The position of notification n in the delivery order, 0 if not delivered.
C15_DeliveredAt(n) ==
    IF n \in SeqToSet(delivered)
    THEN CHOOSE i \in DOMAIN delivered : delivered[i] = n
    ELSE 0

\* C15: the order of delivery follows the delays drawn and not the fan-out
\* order: the pending timers are always in the order of the time they have
\* left, whatever batch and batch position their notifications have, and
\* only notifications of a batch that were given the same delay keep their
\* batch order.
\* Both inversions are reached in one run (C15_Witness).
C15_OrderFollowsDelay ==
    /\ \A i, j \in DOMAIN timers :
         i < j => timers[i].remaining <= timers[j].remaining
    /\ \A i, j \in DOMAIN timers : \A a, b \in DOMAIN messages :
         ( /\ timers[i].msg = messages[a]
           /\ timers[j].msg = messages[b]
           /\ timers[i].remaining = timers[j].remaining
           /\ timers[i].remaining > 0
           /\ a < b ) => i < j

\* The second of two publishes built a batch of two; its second notification
\* was delivered before its first, and one of its notifications before a
\* notification of the first publish.
C15_Witness ==
    /\ numPublished = 2
    /\ Len(messages) = 2
    /\ C15_DeliveredAt(messages[1].id) > 0
    /\ C15_DeliveredAt(messages[2].id) > 0
    /\ C15_DeliveredAt(messages[2].id) < C15_DeliveredAt(messages[1].id)
    /\ \E j \in DOMAIN delivered :
         /\ delivered[j] \notin {messages[1].id, messages[2].id}
         /\ C15_DeliveredAt(messages[2].id) < j

\* A step changes the client set only as a connect or a disconnect does,
\* and such a step leaves the registry, the batches, the timers and the
\* deliveries as they are.
C16_ClientSetStep ==
    \/ sseClients' = sseClients
    \/ /\ sseClients' = Append(sseClients, nextConn)
       /\ nextConn' = nextConn + 1
       /\ outcome' = Outcome("events", "200")
       /\ UNCHANGED <<registryVars, nextUuid, timers, delivered, messages, numPublished>>
    \/ /\ \E c \in SetMembers(sseClients) : sseClients' = SetDelete(sseClients, c)
       /\ UNCHANGED <<registryVars, nextUuid, deliveryVars, nextConn, outcome>>

\* C16: the set of streaming clients changes only in a connect step, which
\* adds the new connection, and in a disconnect step, which removes one
\* member; a step that subscribes, unsubscribes, lists, publishes or fires a
\* timer leaves it unchanged, and a step that changes it leaves the
\* subscriber registry unchanged.
C16_OnlyConnectAndDisconnect == [][C16_ClientSetStep]_vars

\* One client stayed connected through a subscribe, a publish, an
\* unsubscribe and the delivery of a notification to it.
C16_Witness ==
    /\ sseClients = <<1>>
    /\ nextConn = 2
    /\ removedIds # {}
    /\ delivered # <<>>
    /\ HasNotification(wire[1], delivered[1])

\* A step is either a publish or an unsubscribe, never both: the publish
\* step answers 200 with a batch for exactly the listeners registered when
\* it runs and leaves the registry alone; a step that removes a subscriber
\* answers 200 and touches no batch, timer or delivery.
C17_Step ==
    /\ numPublished' # numPublished =>
         /\ outcome' = Outcome("publish", "200")
         /\ [i \in DOMAIN messages' |-> messages'[i].userId]
              = [i \in DOMAIN observers |-> observers[i].k]
         /\ {messages'[i].userId : i \in DOMAIN messages'} = MapKeys(subscribers)
         /\ UNCHANGED <<subscribers, observers>>
    /\ MapKeys(subscribers') # MapKeys(subscribers) /\ numSubscribed' = numSubscribed =>
         /\ outcome' = Outcome("unsubscribe", "200")
         /\ UNCHANGED deliveryVars

\* C17: an unsubscribe and a publish never overlap: whichever order the two
\* requests are served in, neither raises an error, and the batch of the
\* publish holds one notification for each subscriber registered at the
\* instant it runs (the registry before the unsubscribe, or after it), never
\* a mixture that misses a remaining subscriber.
C17_FanOutSeesOneInstant == [][C17_Step]_vars

\* A publish served after an unsubscribe built the one notification of the
\* subscriber that remained.
C17_Witness ==
    /\ outcome = Outcome("publish", "200")
    /\ numSubscribed = 2
    /\ removedIds # {}
    /\ Len(messages) = 1
    /\ Len(subscribers) = 1
    /\ messages[1].userId = subscribers[1].k

\* A pending timer is still pending after a step, unless the step is the
\* one that delivers its notification.
C18_TimerKeptStep ==
    \A i \in DOMAIN timers :
        \/ \E k \in DOMAIN timers' : timers'[k].msg = timers[i].msg
        \/ delivered' = Append(delivered, timers[i].msg.id)

\* C18: no step withdraws a pending timer (a connect, a disconnect, a
\* subscribe, an unsubscribe and a further publish all keep it: a timer
\* leaves the queue only in the step that delivers its notification), and
\* when due timers fire and time passes the queue is empty again and again.
\* Hence every notification scheduled is eventually delivered.
C18_EveryScheduledIsDelivered ==
    /\ [][C18_TimerKeptStep]_vars
    /\ []<>(timers = <<>>)

\* A notification was delivered after the only client had disconnected
\* and its subscriber had unsubscribed.
C18_Witness ==
    /\ nextConn = 2
    /\ sseClients = <<>>
    /\ removedIds # {}
    /\ subscribers = <<>>
    /\ delivered # <<>>
    /\ timers = <<>>
    /\ \A i \in DOMAIN wire[1] : wire[1][i].event = "hello"

\* The rank of an id among the ids drawn so far: the k-th id drawn is the
\* id of rank k.
C19_Rank(id) == CHOOSE k \in 1 .. nextUuid : CryptoRandomId(k) = id

\* C19: listSubscribers() holds exactly the subscribers registered now (the
\* ids returned by a subscribe and not unsubscribed since), each once, in
\* the order in which they subscribed, and it is as long as
\* subscriberCount() says, so the two fields of GET /api/subscribers agree.
C19_ListIsRegistryInOrder ==
    /\ {ListSubscribers[i].id : i \in DOMAIN ListSubscribers} = issued \ removedIds
    /\ \A i, j \in DOMAIN ListSubscribers :
         i < j => C19_Rank(ListSubscribers[i].id) < C19_Rank(ListSubscribers[j].id)
    /\ Len(ListSubscribers) = SubscriberCount

\* The list was served after the second of three subscribers had
\* unsubscribed: it holds the first and the third, in that order.
C19_Witness ==
    /\ outcome = Outcome("subscribers", "200")
    /\ numSubscribed = 3
    /\ Len(ListSubscribers) = 2
    /\ ListSubscribers[1].id = CryptoRandomId(1)
    /\ ListSubscribers[2].id = CryptoRandomId(3)
    /\ SubscriberCount = 2

\* A step that unsubscribes leaves every pending timer, batch, delivery and
\* frame as it is; a step that delivers a notification writes it to every
\* connected client, whether or not its subscriber is still registered; a
\* step that publishes builds no notification for an unsubscribed id.
C20_Step ==
    /\ removedIds' # removedIds => UNCHANGED <<timers, messages, delivered, wire>>
    /\ (delivered' # delivered /\ timers # <<>>) =>
         \A c \in SetMembers(sseClients) :
             /\ wire'[c] # wire[c]
             /\ wire'[c][Len(wire'[c])] = NotificationFrame(Head(timers).msg)
    /\ numPublished' # numPublished =>
         \A i \in DOMAIN messages' : messages'[i].userId \notin removedIds

\* C20: an unsubscribe does not withdraw the notifications already built
\* for the subscriber: their timers stay pending and fire as scheduled,
\* writing to every client connected then, while no later publish builds a
\* notification for the unsubscribed id.
C20_UnsubscribeKeepsPending == [][C20_Step]_vars

\* A connected client holds a notification whose userId was unsubscribed
\* and is no longer in the registry.
C20_Witness ==
    \E c \in SetMembers(sseClients) : \E i \in DOMAIN wire[c] :
        /\ wire[c][i].event = "notification"
        /\ wire[c][i].data.userId \in removedIds
        /\ wire[c][i].data.userId \notin MapKeys(subscribers)

====
